---- MODULE Spec2Model ----
(***************************************************************************)
(* A model of scikit-criteria's utility functions (skcriteria/util.py) and *)
(* of the TOPSIS closeness ranking (skcriteria/madm/closeness.py).         *)
(*                                                                         *)
(* Every function of the source is a pure function; it is modelled as an   *)
(* operator that follows the source statement by statement, and as an      *)
(* action that draws the arguments from bounded sets, applies the operator *)
(* and records the outcome (a returned value or the exception raised).     *)
(*                                                                         *)
(* Numbers.  Array elements are integers.  A float that may be NaN is the  *)
(* record [nan, v].  A Euclidean distance sqrt(s) is represented by its    *)
(* radicand s (an integer), and the quotient d_worst / (d_better+d_worst)  *)
(* by the pair of radicands; comparisons of such quotients are decided     *)
(* exactly by cross-multiplication (see Less).  Floating-point rounding is *)
(* not modelled.                                                           *)
(***************************************************************************)
EXTENDS Integers, Sequences, FiniteSets

VARIABLES
    op,        \* the function applied last ("init" before any call)
    arg,       \* the arguments of the last utility call
    ret,       \* its outcome: [status, value]
    tiebreak,  \* the tie-breaking order of the ranking utility (fixed per run)
    ndata,     \* the normalized triple [mtx, criteria, weights] given to TOPSIS
    out,       \* what topsis returned for ndata: [done, rank, closeness]
    decision,  \* what TOPSIS.solve returned: <<first, second, third>>
    prev       \* the result for the problem before it was improved / rescaled

vars == <<op, arg, ret, tiebreak, ndata, out, decision, prev>>

\* ---------------------------------------------------------------- bounds
MaxLen == 3      \* longest 1-D array given to criteriarr and nearest
MaxNum == 2      \* largest magnitude of an element given to nearest
MaxDim == 2      \* largest extent of a candidate given to is_mtx
MaxAlt == 3      \* most alternatives (rows) of a decision matrix
MaxDelta == 2    \* largest improvement of one entry
MaxScale == 3    \* largest weight scale factor

\* ------------------------------------------------------------- constants
MIN == -1
MAX == 1

\* ---------------------------------------------------------------- helpers
SeqsUpTo(S, n) == UNION {[1..k -> S] : k \in 0..n}

Abs(x) == IF x < 0 THEN -x ELSE x

\* the elements of a sequence, as numpy's set routines see them
Range(s) == {s[i] : i \in DOMAIN s}

None == [status |-> "none", value |-> 0]

\* a numpy array holds its elements: the sequence f with every element
\* evaluated once
ndarray(f) == SubSeq(f, 1, Len(f))

\* ------------------------------------------------------------ criteriarr
\* np.setdiff1d(criteria, [MIN, MAX]): the unique values of criteria that
\* are not in [MIN, MAX]
setdiff1d(criteria, allowed) == Range(criteria) \ allowed

\* bool(ndarray), as numpy evaluates the `if` of criteriarr: an empty array
\* is false, a one-element array has the truth value of its element, and a
\* longer one raises ValueError("The truth value of an array with more than
\* one element is ambiguous").  (The numpy of the package's time; from numpy
\* 2.2 on the empty array raises as well.)
truth(diff) ==
    IF diff = {} THEN "false"
    ELSE IF Cardinality(diff) = 1
         THEN (IF (CHOOSE x \in diff : TRUE) # 0 THEN "true" ELSE "false")
         ELSE "ambiguous"

criteriarr(criteria) ==
    LET t == truth(setdiff1d(criteria, {MIN, MAX}))
    IN  IF t = "true"
        THEN [status |-> "ValueError: Criteria Array only accept", value |-> criteria]
        ELSE IF t = "ambiguous"
             THEN [status |-> "ValueError: truth value ambiguous", value |-> <<>>]
             ELSE [status |-> "ok", value |-> criteria]

CriteriaInputs == {MIN, MAX, 0, 2}

Criteriarr ==
    /\ op = "init"
    /\ \E criteria \in SeqsUpTo(CriteriaInputs, MaxLen) :
        /\ op' = "criteriarr"
        /\ arg' = [criteria |-> criteria]
        /\ ret' = criteriarr(criteria)
        /\ UNCHANGED <<tiebreak, ndata, out, decision, prev>>

\* ---------------------------------------------------------------- is_mtx
\* A candidate is a nested list: nest is its nesting depth (0: a scalar),
\* lens the lengths of the inner lists of a list of lists (nest 2) or the
\* common row length of each block (nest 3), inner the length of a flat list
\* (nest 1) or of the innermost lists (nest 3).
Candidates ==
    {[nest |-> 0, lens |-> <<>>, inner |-> 0]}
    \cup {[nest |-> 1, lens |-> <<>>, inner |-> k] : k \in 0..MaxDim}
    \cup {[nest |-> 2, lens |-> l, inner |-> 0] : l \in SeqsUpTo(0..MaxDim, MaxDim)}
    \cup {[nest |-> 3, lens |-> [i \in 1..a |-> b], inner |-> c] :
            a \in 1..MaxDim, b \in 1..MaxDim, c \in 1..MaxDim}

\* np.asarray(mtx).shape.  A ragged list of lists becomes a 1-D array of
\* objects (numpy < 1.24) or makes np.asarray raise ValueError (numpy >= 1.24);
\* the unpacking of the shape fails in the first case and the except clause
\* takes both, so the ragged case is the 1-D shape here.
shape(mtx) ==
    IF mtx.nest = 0 THEN <<>>
    ELSE IF mtx.nest = 1 THEN <<mtx.inner>>
    ELSE IF mtx.nest = 2
         THEN (IF Len(mtx.lens) = 0 THEN <<0>>
               ELSE IF \A i \in DOMAIN mtx.lens : mtx.lens[i] = mtx.lens[1]
                    THEN <<Len(mtx.lens), mtx.lens[1]>>
                    ELSE <<Len(mtx.lens)>>)
         ELSE <<Len(mtx.lens), mtx.lens[1], mtx.inner>>

\* size is None ([given |-> FALSE]) or a tuple (a, b); a non-empty tuple is
\* true in `if size and ...`
Sizes ==
    {[given |-> FALSE, a |-> 0, b |-> 0]}
    \cup {[given |-> TRUE, a |-> a, b |-> b] : a \in 0..MaxDim, b \in 0..MaxDim}

is_mtx_eq(mtx, size) ==
    LET s == shape(mtx)
    IN  IF Len(s) # 2 THEN FALSE
        ELSE IF size.given /\ <<s[1], s[2]>> = <<size.a, size.b>> THEN FALSE
        ELSE TRUE

is_mtx(mtx, size) ==
    LET s == shape(mtx)
    IN  IF Len(s) # 2 THEN FALSE          \* a, b = mtx.shape raises; except: False
        ELSE IF size.given /\ <<s[1], s[2]>> # <<size.a, size.b>> THEN FALSE
        ELSE TRUE

IsMtx ==
    /\ op = "init"
    /\ \E mtx \in Candidates, size \in Sizes :
        /\ op' = "is_mtx"
        /\ arg' = [mtx |-> mtx, size |-> size]
        /\ ret' = [status |-> "ok", value |-> is_mtx(mtx, size)]
        /\ UNCHANGED <<tiebreak, ndata, out, decision, prev>>

\* --------------------------------------------------------------- nearest
NaN == [nan |-> TRUE, v |-> 0]
Num(x) == [nan |-> FALSE, v |-> x]
Floats == {NaN} \cup {Num(x) : x \in (-MaxNum)..MaxNum}

Sides == {"None", "gt", "lt", "ge"}

notnan(x) == ~x.nan

\* raveled[~np.isnan(raveled)]
cleaned(array) == SelectSeq(array, notnan)

\* the mask of line 110: np.ma.less_equal(diff, 0) for "gt",
\* np.ma.greater_equal(diff, 0) otherwise
masker_strictless(side, d) == IF side = "gt" THEN d < 0 ELSE d > 0

masker(side, d) == IF side = "gt" THEN d <= 0 ELSE d >= 0

\* np.argmin / np.argmax over the indices I: the first index of an extreme
argmin(f, I) ==
    CHOOSE i \in I : \A k \in I : f[i] < f[k] \/ (f[i] = f[k] /\ i <= k)

argmax(f, I) ==
    CHOOSE i \in I : \A k \in I : f[i] > f[k] \/ (f[i] = f[k] /\ i <= k)

nearest(array, value, side) ==
    IF side \notin {"None", "gt", "lt"}
    THEN [status |-> "ValueError: side", value |-> 0]
    ELSE
    LET c == cleaned(array)
        diff == [i \in DOMAIN c |-> c[i].v - value]
    IN  IF side = "None"
        THEN IF Len(c) = 0
             THEN [status |-> "ValueError: argmin of an empty sequence", value |-> 0]
             ELSE [status |-> "ok",
                   value |-> c[argmin([i \in DOMAIN c |-> Abs(diff[i])], DOMAIN c)].v]
        ELSE
        LET mask == [i \in DOMAIN c |-> masker(side, diff[i])]
            unmasked == {i \in DOMAIN c : ~mask[i]}
        IN  IF \A i \in DOMAIN c : mask[i]
            THEN None
            ELSE [status |-> "ok",
                  value |-> c[IF side = "gt" THEN argmin(diff, unmasked)
                                             ELSE argmax(diff, unmasked)].v]

Nearest ==
    /\ op = "init"
    /\ \E array \in SeqsUpTo(Floats, MaxLen), value \in (-MaxNum)..MaxNum, side \in Sides :
        /\ op' = "nearest"
        /\ arg' = [array |-> array, value |-> value, side |-> side]
        /\ ret' = nearest(array, value, side)
        /\ UNCHANGED <<tiebreak, ndata, out, decision, prev>>

\* ------------------------------------------------------- utilities' spec
NoData == [mtx |-> <<>>, criteria |-> <<>>, weights |-> <<>>]
NoOut == [done |-> FALSE, rank |-> <<>>, closeness |-> <<>>]
NoPrev == [alt |-> 0, rank |-> <<>>, closeness |-> <<>>]

InitUtil ==
    /\ op = "init"
    /\ arg = <<>>
    /\ ret = None
    /\ tiebreak = "first"
    /\ ndata = NoData
    /\ out = NoOut
    /\ decision = <<>>
    /\ prev = NoPrev

NextUtil == Criteriarr \/ IsMtx \/ Nearest

SpecUtil == InitUtil /\ [][NextUtil]_vars

\* ------------------------------------------- properties of the utilities
Offending(criteria) == \E i \in DOMAIN criteria : criteria[i] \notin {MIN, MAX}

\* C1: criteriarr raises the validation error, whose message reports the
\* array, whenever some element is outside {MIN, MAX} (also when the only
\* such value is 0, also when there are several), and otherwise raises
\* nothing and returns the same sequence of values.
C1_RejectsEveryOffendingValue ==
    op = "criteriarr" =>
        IF Offending(arg.criteria)
        THEN /\ ret.status = "ValueError: Criteria Array only accept"
             /\ ret.value = arg.criteria
        ELSE /\ ret.status = "ok"
             /\ ret.value = arg.criteria

\* the non-NaN values of an array and those on one side of a target
Values(array) == {array[i].v : i \in {k \in DOMAIN array : ~array[k].nan}}
AtLeast(array, t) == {v \in Values(array) : v >= t}
AtMost(array, t) == {v \in Values(array) : v <= t}
Above(array, t) == {v \in Values(array) : v > t}
Below(array, t) == {v \in Values(array) : v < t}
Least(S) == CHOOSE x \in S : \A y \in S : x <= y
Greatest(S) == CHOOSE x \in S : \A y \in S : x >= y

Closest(array, t) ==
    /\ ret.status = "ok"
    /\ ret.value \in Values(array)
    /\ \A v \in Values(array) : Abs(ret.value - t) <= Abs(v - t)

\* C7 as stated: ignoring NaN, side "gt" returns the smallest element
\* >= target and side "lt" the largest element <= target (an element equal
\* to the target is returned), None exactly when no element satisfies the
\* side constraint, and side None returns an element minimising |v - target|.
C7_NearestInclusive ==
    op = "nearest" =>
        /\ arg.side = "gt" =>
            IF AtLeast(arg.array, arg.value) = {} THEN ret = None
            ELSE ret = [status |-> "ok", value |-> Least(AtLeast(arg.array, arg.value))]
        /\ arg.side = "lt" =>
            IF AtMost(arg.array, arg.value) = {} THEN ret = None
            ELSE ret = [status |-> "ok", value |-> Greatest(AtMost(arg.array, arg.value))]
        /\ (arg.side = "None" /\ Values(arg.array) # {}) => Closest(arg.array, arg.value)

\* C7, amended: ignoring NaN, side "gt" returns the smallest element
\* strictly greater than the target and side "lt" the largest element
\* strictly less than it (an element equal to the target satisfies neither
\* side), None without raising exactly when no element is strictly on that
\* side, and side None returns an element minimising |v - target| when
\* there is a non-NaN element.
C7_NearestStrict ==
    op = "nearest" =>
        /\ arg.side = "gt" =>
            IF Above(arg.array, arg.value) = {} THEN ret = None
            ELSE ret = [status |-> "ok", value |-> Least(Above(arg.array, arg.value))]
        /\ arg.side = "lt" =>
            IF Below(arg.array, arg.value) = {} THEN ret = None
            ELSE ret = [status |-> "ok", value |-> Greatest(Below(arg.array, arg.value))]
        /\ (arg.side = "None" /\ Values(arg.array) # {}) => Closest(arg.array, arg.value)

\* a side search over an array that holds the target itself and an element
\* beyond it, answered with the element beyond
C7_Witness ==
    /\ op = "nearest"
    /\ arg.side = "gt"
    /\ arg.value \in Values(arg.array)
    /\ NaN \in Range(arg.array)
    /\ ret.status = "ok"
    /\ ret.value > arg.value

\* a list of one or more lists of scalars, all of one length
Rectangular(mtx) ==
    /\ mtx.nest = 2
    /\ Len(mtx.lens) > 0
    /\ \A i \in DOMAIN mtx.lens : mtx.lens[i] = mtx.lens[1]

\* C8: is_mtx never raises; it returns False when the candidate is not a
\* 2-D rectangular array (scalar, 1-D, 3-D, ragged) or when a size is given
\* and differs from the shape (rows, columns), and True in every other case.
C8_IsMtxDecides ==
    op = "is_mtx" =>
        /\ ret.status = "ok"
        /\ ret.value =
            (/\ Rectangular(arg.mtx)
             /\ (arg.size.given =>
                    /\ arg.size.a = Len(arg.mtx.lens)
                    /\ arg.size.b = arg.mtx.lens[1]))

\* a 2-D candidate accepted with the size that is its shape
C8_Witness ==
    /\ op = "is_mtx"
    /\ Rectangular(arg.mtx)
    /\ arg.size.given
    /\ arg.size.a = 2
    /\ arg.size.b = 1
    /\ ret.value = TRUE

\* ---------------------------------------------------------------- topsis
\* np.multiply(nmtx, nweights): nweights is broadcast over the rows
wmtx(nmtx, nweights) ==
    ndarray(
    [i \in DOMAIN nmtx |-> ndarray([j \in DOMAIN nmtx[i] |-> nmtx[i][j] * nweights[j]])])

column(w, j) == {w[i][j] : i \in DOMAIN w}

\* np.min(wmtx, axis=0), np.max(wmtx, axis=0)
mins(w) ==
    ndarray(
    [j \in DOMAIN w[1] |-> CHOOSE x \in column(w, j) : \A y \in column(w, j) : x <= y])

maxs(w) ==
    ndarray(
    [j \in DOMAIN w[1] |-> CHOOSE x \in column(w, j) : \A y \in column(w, j) : x >= y])

\* np.where(ncriteria == MAX, maxs, mins)
ideal_swapped(ncriteria, mx, mn) ==
    ndarray(
    [j \in DOMAIN ncriteria |-> IF ncriteria[j] = MIN THEN mx[j] ELSE mn[j]])

ideal(ncriteria, mx, mn) ==
    ndarray(
    [j \in DOMAIN ncriteria |-> IF ncriteria[j] = MAX THEN mx[j] ELSE mn[j]])

\* np.where(ncriteria == MIN, maxs, mins)
anti_ideal(ncriteria, mx, mn) ==
    ndarray(
    [j \in DOMAIN ncriteria |-> IF ncriteria[j] = MIN THEN mx[j] ELSE mn[j]])

RECURSIVE sum(_)
sum(s) == IF Len(s) = 0 THEN 0 ELSE s[1] + sum(Tail(s))

\* np.sqrt(np.sum(np.power(wmtx - point, 2), axis=1)): one distance per row,
\* each represented by its radicand
distance_axis0(w, point) ==
    ndarray(
    [j \in DOMAIN w[1] |->
        sum([i \in DOMAIN w |-> (w[i][j] - point[j]) * (w[i][j] - point[j])])])

distance(w, point) ==
    ndarray(
    [i \in DOMAIN w |->
        sum([j \in DOMAIN w[i] |-> (w[i][j] - point[j]) * (w[i][j] - point[j])])])

\* d_worst / (d_better + d_worst), elementwise, on radicands: the quotient
\* sqrt(num) / (sqrt(oth) + sqrt(num)); 0.0 / 0.0 is NaN in numpy (with a
\* RuntimeWarning, no exception)
closeness_of_better(d_better, d_worst) ==
    ndarray(
    [i \in DOMAIN d_worst |->
        [nan |-> d_better[i] + d_worst[i] = 0, num |-> d_better[i], oth |-> d_worst[i]]])

closeness(d_better, d_worst) ==
    ndarray(
    [i \in DOMAIN d_worst |->
        [nan |-> d_better[i] + d_worst[i] = 0, num |-> d_worst[i], oth |-> d_better[i]]])

\* x < y and x = y for two quotients that are not NaN:
\*   sqrt(a)/(sqrt(b)+sqrt(a)) < sqrt(c)/(sqrt(d)+sqrt(c))  iff  a*d < c*b
Less(x, y) == x.num * y.oth < y.num * x.oth

Same(x, y) == x.num * y.oth = y.num * x.oth

\* rank.rankdata(a, reverse): ranks from 1, ascending, or descending when
\* reverse; equal scores are ordered by position as tiebreak says; NaN sorts
\* after every number, as numpy sorts it.
first(k, i) == IF tiebreak = "first" THEN k < i ELSE k > i

before(a, k, i, reverse) ==
    IF a[k].nan THEN a[i].nan /\ first(k, i)
    ELSE \/ a[i].nan
         \/ (~a[i].nan /\ IF reverse THEN Less(a[i], a[k]) ELSE Less(a[k], a[i]))
         \/ (~a[i].nan /\ Same(a[k], a[i]) /\ first(k, i))

rankdata(a, reverse) ==
    ndarray(
    [i \in DOMAIN a |-> 1 + Cardinality({k \in DOMAIN a : before(a, k, i, reverse)})])

topsis_raw_extremes(nmtx, ncriteria, nweights) ==
    LET w == wmtx(nmtx, nweights)
        d_better == distance(w, ideal(ncriteria, maxs(nmtx), mins(nmtx)))
        d_worst == distance(w, anti_ideal(ncriteria, maxs(nmtx), mins(nmtx)))
        c == closeness(d_better, d_worst)
    IN  [done |-> TRUE, rank |-> rankdata(c, TRUE), closeness |-> c]

topsis_ascending(nmtx, ncriteria, nweights) ==
    LET w == wmtx(nmtx, nweights)
        d_better == distance(w, ideal(ncriteria, maxs(w), mins(w)))
        d_worst == distance(w, anti_ideal(ncriteria, maxs(w), mins(w)))
        c == closeness(d_better, d_worst)
    IN  [done |-> TRUE, rank |-> rankdata(c, FALSE), closeness |-> c]

topsis(nmtx, ncriteria, nweights) ==
    LET w == wmtx(nmtx, nweights)
        d_better == distance(w, ideal(ncriteria, maxs(w), mins(w)))
        d_worst == distance(w, anti_ideal(ncriteria, maxs(w), mins(w)))
        c == closeness(d_better, d_worst)
    IN  [done |-> TRUE, rank |-> rankdata(c, TRUE), closeness |-> c]

\* TOPSIS.solve: return None, rank, {"closeness": closeness}
Absent == [none |-> TRUE, array |-> <<>>]
Array(a) == [none |-> FALSE, array |-> a]

solve(nd) ==
    LET r == topsis(nd.mtx, nd.criteria, nd.weights)
    IN  <<Absent, Array(r.rank), [closeness |-> r.closeness]>>

\* --------------------------------------------------------- TOPSIS' spec
CritCounts == {1, 2}
Entries == {0, 1}
WeightVals == {0, 1, 2}

\* the valid inputs: a rectangular matrix with at least one row and column,
\* criteria in {MIN, MAX}, non-negative weights that are not all zero
Problems ==
    UNION {
        {[mtx |-> mt, criteria |-> cr, weights |-> ws] :
            mt \in [1..n -> [1..m -> Entries]],
            cr \in [1..m -> {MIN, MAX}],
            ws \in {x \in [1..m -> WeightVals] : \E j \in 1..m : x[j] # 0}}
        : n \in 1..MaxAlt, m \in CritCounts}

Init ==
    /\ op = "init"
    /\ arg = <<>>
    /\ ret = None
    /\ tiebreak \in {"first", "last"}
    /\ ndata \in Problems
    /\ out = NoOut
    /\ decision = <<>>
    /\ prev = NoPrev

\* the (rank, closeness) pair topsis returned inside solve
returned(d) == [done |-> TRUE, rank |-> d[2].array, closeness |-> d[3].closeness]

Solve ==
    /\ op = "init"
    /\ op' = "solve"
    /\ decision' = solve(ndata)
    /\ out' = returned(decision')
    /\ UNCHANGED <<arg, ret, tiebreak, ndata, prev>>

\* the same problem with one entry of a MAX column strictly increased,
\* solved again
Improve ==
    /\ op = "solve"
    /\ \E i \in DOMAIN ndata.mtx, j \in DOMAIN ndata.criteria, delta \in 1..MaxDelta :
        /\ ndata.criteria[j] = MAX
        /\ ndata' = [ndata EXCEPT !.mtx[i][j] = @ + delta]
        /\ prev' = [alt |-> i, rank |-> out.rank, closeness |-> out.closeness]
    /\ op' = "improve"
    /\ decision' = solve(ndata')
    /\ out' = returned(decision')
    /\ UNCHANGED <<arg, ret, tiebreak>>

\* the same problem with the weights multiplied by a scalar k > 1, solved
\* again
Rescale ==
    /\ op = "solve"
    /\ \E k \in 2..MaxScale :
        ndata' = [ndata EXCEPT !.weights = [j \in DOMAIN @ |-> k * @[j]]]
    /\ prev' = [alt |-> 0, rank |-> out.rank, closeness |-> out.closeness]
    /\ op' = "rescale"
    /\ decision' = solve(ndata')
    /\ out' = returned(decision')
    /\ UNCHANGED <<arg, ret, tiebreak>>

Next == Solve \/ Improve \/ Rescale

Spec == Init /\ [][Next]_vars

\* ------------------------------------------------- properties of TOPSIS
Alternatives == DOMAIN ndata.mtx

\* alternative i has, in every column of the weighted matrix W, the best
\* (the worst) value of the column for the column's direction
AtIdeal(W, i) ==
    \A j \in DOMAIN ndata.criteria : \A k \in Alternatives :
        IF ndata.criteria[j] = MAX THEN W[k][j] <= W[i][j]
                                   ELSE W[k][j] >= W[i][j]

AtAntiIdeal(W, i) ==
    \A j \in DOMAIN ndata.criteria : \A k \in Alternatives :
        IF ndata.criteria[j] = MAX THEN W[k][j] >= W[i][j]
                                   ELSE W[k][j] <= W[i][j]

Zero == [nan |-> FALSE, num |-> 0, oth |-> 1]
One == [nan |-> FALSE, num |-> 1, oth |-> 0]
LessEq(x, y) == Less(x, y) \/ Same(x, y)
Defined(i) == ~out.closeness[i].nan

\* C2: TOPSIS.solve returns (kernel, rank, extra) with the ranking array,
\* one entry per alternative, first, None second, and the closeness values,
\* one per alternative, under "closeness" third.
C2_KernelIsTheRanking ==
    out.done =>
        /\ ~decision[1].none
        /\ Len(decision[1].array) = Len(ndata.mtx)
        /\ decision[2].none
        /\ Len(decision[3].closeness) = Len(ndata.mtx)

\* C3: when d_better[i] + d_worst[i] = 0 for some alternative, topsis does
\* not divide 0 by 0: no NaN closeness is returned or ranked.
C3_NoUndefinedCloseness ==
    out.done => \A i \in DOMAIN out.closeness : ~out.closeness[i].nan

C5_ClosenessBounds ==
    (out.done /\ \A i \in Alternatives : Defined(i)) =>
        LET W == wmtx(ndata.mtx, ndata.weights)
        IN  \A i \in Alternatives :
                /\ LessEq(Zero, out.closeness[i])
                /\ LessEq(out.closeness[i], One)
                /\ Same(out.closeness[i], One) <=> AtIdeal(W, i)
                /\ Same(out.closeness[i], Zero) <=> AtAntiIdeal(W, i)

\* closeness 1, closeness 0 and a closeness strictly between, in one result
C5_Witness ==
    /\ out.done
    /\ \A i \in Alternatives : Defined(i)
    /\ \E i, k, l \in Alternatives :
        /\ Same(out.closeness[i], One)
        /\ Same(out.closeness[k], Zero)
        /\ Less(Zero, out.closeness[l]) /\ Less(out.closeness[l], One)

\* ranks descend with closeness, and a rank-1 alternative has a closeness
\* that no alternative exceeds
Descending ==
    /\ \A i, k \in Alternatives :
        (Defined(i) /\ Defined(k) /\ Less(out.closeness[k], out.closeness[i]))
            => out.rank[i] < out.rank[k]
    /\ \A i \in Alternatives :
        out.rank[i] = 1 =>
            \A k \in Alternatives :
                \/ ~Defined(k)
                \/ (Defined(i) /\ LessEq(out.closeness[k], out.closeness[i]))

SameValue(x, y) == (x.nan /\ y.nan) \/ (~x.nan /\ ~y.nan /\ Same(x, y))

\* C10: multiplying the weights by a positive scalar leaves the ranking
\* array and every closeness coefficient unchanged.
C10_ScaleInvariant ==
    op = "rescale" =>
        /\ out.rank = prev.rank
        /\ DOMAIN out.closeness = DOMAIN prev.closeness
        /\ \A i \in DOMAIN out.closeness :
            SameValue(out.closeness[i], prev.closeness[i])

\* a rescaled problem with a closeness strictly between 0 and 1 and with
\* two columns of different non-zero weight
C10_Witness ==
    /\ op = "rescale"
    /\ Len(ndata.mtx) = 3
    /\ Len(ndata.weights) = 2
    /\ ndata.weights[1] # ndata.weights[2]
    /\ ndata.weights[1] # 0 /\ ndata.weights[2] # 0
    /\ \E i \in Alternatives :
        Defined(i) /\ Less(Zero, out.closeness[i]) /\ Less(out.closeness[i], One)

====
